---- MODULE Spec2Model ----
(***************************************************************************)
(* A model of AdvancedQueue (src/src/core/advanced-queue.ts): the message  *)
(* store with its three collections, the delay scheduler, the retry /      *)
(* dead-letter state machine and the ordering policy.                      *)
(*                                                                         *)
(* Messages are JavaScript objects: a collection holds references, and one *)
(* object can be referenced from several places.  The model keeps the      *)
(* objects in `heap` (a reference is an index into it) and the collections *)
(* as sequences of references, so that a mutation through one reference is *)
(* seen through every other one, as in the program.  An object that no     *)
(* collection references any more cannot be reached by any call, and the   *)
(* model drops it from `heap`.                                             *)
(*                                                                         *)
(* The collections are JavaScript arrays, and the in-memory storage driver *)
(* keeps the very arrays saveState() handed to it.  An array has an        *)
(* identity: a call either changes it in place (push, sort, splice) or     *)
(* replaces the field by a new array (filter, a literal), and a saved      *)
(* array that is still the field's array changes with it.                  *)
(***************************************************************************)
EXTENDS Integers, Sequences, FiniteSets, TLC

\* ----------------------------------------------------------------- bounds
MaxObjs == 2
MaxTime == 2
NumIds == 1
MaxPriority == 1
MaxDelay == 1
MaxRetriesBound == 2
MaxAttempts == 3
MaxPersistAttempts == 2
MaxTotal == 2
MaxLoads == 1
MaxSaves == 1
MaxHandlers == 1
MaxValue == 2
MaxQueueIds == 2
MaxInstances == 3

\* ------------------------------------------------------------- constants
\* An optional field that is not set (delayUntil?, processingStartedAt?,
\* failureReason?), and the result of a lookup that finds nothing.
Undefined == -1
\* Date.now() at construction; any positive value (a timestamp is truthy).
StartTime == 1
\* The ids generateUniqueId() returns are disjoint from the caller's ids.
GeneratedBase == 100
\* The reason a caller gives to fail(messageId, reason).
Reason == 1
\* null, as a storage driver's load resolves for an absent key.
Null == -2
\* Object.prototype.constructor, which every object literal inherits.
Inherited == -3

PENDING == "pending"
PROCESSING == "processing"
COMPLETED == "completed"
FAILED == "failed"
DELAYED == "delayed"
DEAD_LETTER == "dead_letter"
MessageStatus == {PENDING, PROCESSING, COMPLETED, FAILED, DELAYED, DEAD_LETTER}

\* The inputs the operations are called with.
Ids == 1..NumIds
Priorities == 0..MaxPriority
Delays == -1..MaxDelay
RetryDelays == 0..1
\* The delays enqueue is called with on a queue with persistence.
PersistDelays == {0}
\* The priorities enqueue is called with on a topic queue.
TopicPriorities == {0}
\* The callbacks given to subscribe.
Handlers == 1..MaxHandlers
\* The keys of a storage driver's calls; "constructor" is a name every object
\* inherits from Object.prototype.
Keys == {"a", "b", "constructor"}
\* The values saved through a storage driver; 0 is JavaScript's number 0.
Values == 0..MaxValue
\* The strings generateUniqueId() returns as queueId: two calls can return the
\* same one.
QueueIds == 1..MaxQueueIds
\* The key of saveState and loadState with a constant in place of the queueId.
storageKey_Fixed(queueId) == <<"queue-", 0>>
\* `queue-${this.queueId}`
storageKey(queueId) == <<"queue-", queueId>>
\* The keys of the items of localStorage.
StoreKeys == {<<"queue-", i>> : i \in 0..MaxQueueIds}

VARIABLES
  heap,                \* the Message objects the collections reference
  messages,            \* this.messages: the ready collection
  delayedMessages,     \* this.delayedMessages
  deadLetterMessages,  \* this.deadLetterMessages
  processingMessages,  \* this.processingMessages: ids handed out by dequeue
  options,             \* this.options
  delayedCheckTimer,   \* this.delayedCheckTimer is set
  persistenceTimer,    \* this.persistenceTimer is set
  storage,             \* MemoryStorageDriver.storage[`queue-${queueId}`]
  loading,             \* the loadState() calls waiting at their await
  channel,             \* AdvancedTopicQueue.channel is not null
  listeners,           \* the 'message' listeners of this queue's channel
  peerChannel,         \* the channel of a second topic queue on the same name
  peerListeners,       \* the 'message' listeners of that queue's channel
  posted,              \* the messages the last step posted to the channel
  invoked,             \* the callbacks the last step invoked, with the message
  logged,              \* the last step wrote a diagnostic (console.error)
  driver,              \* a MemoryStorageDriver's storage: the value of each key
  loaded,              \* what the last load(key) on that driver resolved with
  fleet,               \* the queues constructed on one localStorage: their
                       \* queueIds, what each one's first load read, the items
  now,                 \* Date.now()
  due                  \* history: per caller id, the time T + d of the message
                       \* enqueued under it with a delay d > 0 at time T, until
                       \* fail or retryDeadLetter is called on that message

vars == <<heap, messages, delayedMessages, deadLetterMessages,
          processingMessages, options, delayedCheckTimer, persistenceTimer,
          storage, loading, channel, listeners, peerChannel, peerListeners,
          posted, invoked, logged, driver, loaded, fleet, now, due>>

\* A step of the queue that does not touch the channel.
Quiet ==
  /\ posted' = <<>>
  /\ invoked' = <<>>
  /\ logged' = FALSE
  /\ UNCHANGED <<channel, listeners, peerChannel, peerListeners, driver, loaded, fleet>>

\* ------------------------------------------------------------- helpers
Range(s) == {s[i] : i \in DOMAIN s}

\* Array.prototype.filter
Filter(s, Keep(_)) == SelectSeq(s, Keep)

\* Array.prototype.findIndex: the first index whose element passes, or 0.
FindIndex(s, Test(_)) ==
  IF \E i \in DOMAIN s : Test(s[i])
  THEN CHOOSE i \in DOMAIN s : Test(s[i]) /\ \A j \in 1..(i - 1) : ~Test(s[j])
  ELSE 0

\* Array.prototype.find on an array of references: the element, or Undefined.
Find(s, Test(_)) ==
  IF FindIndex(s, Test) = 0 THEN Undefined ELSE s[FindIndex(s, Test)]

\* Array.prototype.splice(index, 1)
Splice(s, index) == SubSeq(s, 1, index - 1) \o SubSeq(s, index + 1, Len(s))

\* sortByPriorityAndTime(a, b): negative when a goes first.
sortByPriorityAndTime_PriorityAscending(a, b) ==
  IF a.priority # b.priority
  THEN a.priority - b.priority
  ELSE a.createdAt - b.createdAt

sortByPriorityAndTime(a, b) ==
  IF a.priority # b.priority
  THEN b.priority - a.priority
  ELSE a.createdAt - b.createdAt

\* Array.prototype.sort(sortByPriorityAndTime) on an array of references into
\* h: a stable sort (insertion after the last element that does not go after).
RECURSIVE SortInsert(_, _, _)
SortInsert(h, s, r) ==
  IF s = <<>> THEN <<r>>
  ELSE IF sortByPriorityAndTime(h[Head(s)], h[r]) <= 0
       THEN <<Head(s)>> \o SortInsert(h, Tail(s), r)
       ELSE <<r>> \o s

RECURSIVE Sort(_, _)
Sort(h, s) ==
  IF s = <<>> THEN <<>>
  ELSE SortInsert(h, Sort(h, SubSeq(s, 1, Len(s) - 1)), s[Len(s)])

\* The queue's fields as one value: the operations below map such a value to
\* the value after the call.
\* `ident` names the array each collection field holds; `storage` and
\* `loading` hold optional values, <<>> for null and <<v>> for v.
Fields == {"messages", "delayedMessages", "deadLetterMessages"}

This ==
  [heap |-> heap,
   messages |-> messages,
   delayedMessages |-> delayedMessages,
   deadLetterMessages |-> deadLetterMessages,
   processingMessages |-> processingMessages,
   ident |-> [f \in Fields |-> 0],
   storage |-> storage,
   loading |-> loading]

\* The references a queue value holds in its collections.
RefsOf(q) ==
  Range(q.messages) \cup Range(q.delayedMessages) \cup Range(q.deadLetterMessages)

\* ------------------------------------------------------ array identities
\* A saved array: its identity and, when it is no longer the array of the
\* field, its items.
\* The arrays the saved states hold for field f, after the field's own array.
HolderIds(q, f) ==
  <<q.ident[f]>>
    \o (IF q.storage = <<>> THEN <<>> ELSE <<q.storage[1][f].id>>)
    \o [i \in DOMAIN q.loading |->
          IF q.loading[i] = <<>> THEN q.ident[f] ELSE q.loading[i][1][f].id]

\* The identity of a new array.
FreshId(q, f) ==
  1 + CHOOSE n \in Range(HolderIds(q, f)) : \A k \in Range(HolderIds(q, f)) : k <= n

\* The field f is about to hold another array: a saved state that holds the
\* field's present array keeps that array as it is now.
Freeze(opt, q, f) ==
  IF opt = <<>> THEN opt
  ELSE IF opt[1][f].id = q.ident[f]
       THEN <<[opt[1] EXCEPT ![f].items = q[f]]>>
       ELSE opt

\* this.f = (the array id, whose items are s)
Assign(q, f, id, s) ==
  [q EXCEPT ![f] = s,
            !.ident[f] = id,
            !.storage = Freeze(q.storage, q, f),
            !.loading = [i \in DOMAIN q.loading |-> Freeze(q.loading[i], q, f)]]

\* this.f = (a new array of items s)
Reassign(q, f, s) == Assign(q, f, FreshId(q, f), s)

\* The references the saved states hold.
SavedRefs(q) ==
  LET Of(opt) == IF opt = <<>> THEN {}
                 ELSE UNION {Range(opt[1][f].items) : f \in Fields}
  IN Of(q.storage) \cup UNION {Of(q.loading[i]) : i \in DOMAIN q.loading}

\* Array identities are names: the same queue with the field's arrays named
\* 0 and the others by their first holder.
Normalise(q) ==
  LET holders == [f \in Fields |-> HolderIds(q, f)]
      Rank(f, id) ==
        (CHOOSE i \in DOMAIN holders[f] :
           /\ holders[f][i] = id
           /\ \A j \in 1..(i - 1) : holders[f][j] # id) - 1
      Of(opt) ==
        IF opt = <<>> THEN opt
        ELSE <<[f \in Fields |->
                 [id |-> Rank(f, opt[1][f].id),
                  items |-> IF opt[1][f].id = q.ident[f]
                            THEN <<>> ELSE opt[1][f].items]]>>
  IN IF q.storage = <<>> /\ \A i \in DOMAIN q.loading : q.loading[i] = <<>>
     THEN [q EXCEPT !.ident = [f \in Fields |-> 0]]
     ELSE [q EXCEPT !.ident = [f \in Fields |-> 0],
                    !.storage = Of(q.storage),
                    !.loading = [i \in DOMAIN q.loading |-> Of(q.loading[i])]]

\* The ids of the messages of a collection.
IdsOf(h, s) == {h[r].id : r \in Range(s)}

\* findMessageById(id): ready, then delayed, then dead-letter.
findMessageById_ReadyOnly(q, id) ==
  Find(q.messages, LAMBDA r : q.heap[r].id = id)

findMessageById(q, id) ==
  LET HasId(r) == q.heap[r].id = id
  IN IF Find(q.messages, HasId) # Undefined THEN Find(q.messages, HasId)
     ELSE IF Find(q.delayedMessages, HasId) # Undefined
          THEN Find(q.delayedMessages, HasId)
          ELSE Find(q.deadLetterMessages, HasId)

\* size()
size(q) == Len(Filter(q.messages, LAMBDA r : q.heap[r].status = PENDING))

\* totalSize()
totalSize(q) ==
  Len(q.messages) + Len(q.deadLetterMessages) + Len(q.delayedMessages)

\* ------------------------------------------------- checkDelayedMessages
\* line 141: message.delayUntil && message.delayUntil <= now
Elapsed_NoTimeCheck(m, t) ==
  m.delayUntil # Undefined /\ m.delayUntil # 0

\* line 141 with < in place of <=
Elapsed_Strict(m, t) ==
  m.delayUntil # Undefined /\ m.delayUntil # 0 /\ m.delayUntil < t

Elapsed(m, t) ==
  m.delayUntil # Undefined /\ m.delayUntil # 0 /\ m.delayUntil <= t

\* The heap after lines 142-143 ran on every elapsed message of the delayed
\* collection.
Promote(q, t) ==
  [r \in DOMAIN q.heap |->
     IF r \in Range(q.delayedMessages) /\ Elapsed(q.heap[r], t)
     THEN [q.heap[r] EXCEPT !.status = PENDING, !.updatedAt = t]
     ELSE q.heap[r]]

checkDelayedMessages_NoSort(q, t) ==
  LET readyMessages == Filter(q.delayedMessages, LAMBDA r : Elapsed(q.heap[r], t))
      stillDelayed == Filter(q.delayedMessages, LAMBDA r : ~Elapsed(q.heap[r], t))
  IN [Reassign(q, "delayedMessages", stillDelayed)
        EXCEPT !.heap = Promote(q, t),
               !.messages = q.messages \o readyMessages]

checkDelayedMessages(q, t) ==
  LET readyMessages == Filter(q.delayedMessages, LAMBDA r : Elapsed(q.heap[r], t))
      stillDelayed == Filter(q.delayedMessages, LAMBDA r : ~Elapsed(q.heap[r], t))
  IN [Reassign(q, "delayedMessages", stillDelayed)
        EXCEPT !.heap = Promote(q, t),
               !.messages = IF Len(readyMessages) > 0
                            THEN Sort(Promote(q, t), q.messages \o readyMessages)
                            ELSE q.messages]

\* ------------------------------------------------------------- the calls
\* A call's outcome: the queue after it, the message it returns (a reference,
\* or Undefined) and, for the calls that return a boolean, that boolean.
Outcome(q, msg, ok) == [q |-> q, msg |-> msg, ok |-> ok]

\* A reference no object of h has: the new object of line 185.
NewRef(h) == CHOOSE r \in 1..(Cardinality(DOMAIN h) + 1) : r \notin DOMAIN h

\* h with one more object
Alloc(h, m) == [r \in DOMAIN h \cup {NewRef(h)} |-> IF r \in DOMAIN h THEN h[r] ELSE m]

\* generateUniqueId(): an id no message has.
generateUniqueId(q) == GeneratedBase + NewRef(q.heap)

\* enqueue(data, {id, priority, delay}) at time t; optId = Undefined when no
\* id is given.  A priority or delay that is not given behaves as 0.
enqueue(q, t, optId, priority, delay) ==
  LET id == IF optId # Undefined THEN optId ELSE generateUniqueId(q)
      existingMessage ==
        IF optId # Undefined THEN findMessageById(q, id) ELSE Undefined
      message == [id |-> id,
                  priority |-> priority,
                  status |-> IF delay # 0 THEN DELAYED ELSE PENDING,
                  createdAt |-> t,
                  updatedAt |-> t,
                  delayUntil |-> IF delay > 0 THEN t + delay ELSE Undefined,
                  processingStartedAt |-> Undefined,
                  processingAttempts |-> 0,
                  failureReason |-> Undefined]
      ref == NewRef(q.heap)
      h2 == Alloc(q.heap, message)
  IN IF existingMessage # Undefined
     THEN Outcome(q, existingMessage, TRUE)
     ELSE IF delay > 0
          THEN Outcome([q EXCEPT !.heap = h2,
                                 !.delayedMessages = Sort(h2, Append(@, ref))],
                       ref, TRUE)
          ELSE Outcome([q EXCEPT !.heap = h2,
                                 !.messages = Sort(h2, Append(@, ref))],
                       ref, TRUE)

\* peek() at time t
peek_NoSweep(q, t) ==
  Outcome(q, Find(q.messages, LAMBDA r : q.heap[r].status = PENDING), TRUE)

peek(q, t) ==
  LET s == checkDelayedMessages(q, t)
  IN Outcome(s, Find(s.messages, LAMBDA r : s.heap[r].status = PENDING), TRUE)

\* line 228: the index dequeue selects in the ready collection, or 0
Select_AnyStatus(s) == IF s.messages = <<>> THEN 0 ELSE 1

Select(s) == FindIndex(s.messages, LAMBDA r : s.heap[r].status = PENDING)

\* dequeue() at time t
dequeue_Shifts(q, t) ==
  LET s == checkDelayedMessages(q, t)
      index == Select(s)
      message == s.messages[index]
  IN IF index = 0
     THEN Outcome(s, Undefined, TRUE)
     ELSE Outcome([s EXCEPT !.heap[message].status = PROCESSING,
                            !.heap[message].processingStartedAt = t,
                            !.heap[message].updatedAt = t,
                            !.messages = Splice(@, index),
                            !.processingMessages = @ \cup {s.heap[message].id}],
                  message, TRUE)

dequeue(q, t) ==
  LET s == checkDelayedMessages(q, t)
      index == Select(s)
      message == s.messages[index]
  IN IF index = 0
     THEN Outcome(s, Undefined, TRUE)
     ELSE Outcome([s EXCEPT !.heap[message].status = PROCESSING,
                            !.heap[message].processingStartedAt = t,
                            !.heap[message].updatedAt = t,
                            !.processingMessages = @ \cup {s.heap[message].id}],
                  message, TRUE)

\* complete(messageId) at time t
complete_ReturnsTrue(q, t, messageId) ==
  LET message == findMessageById(q, messageId)
  IN IF message = Undefined
     THEN Outcome([q EXCEPT !.processingMessages = @ \ {messageId}], Undefined, TRUE)
     ELSE Outcome([q EXCEPT !.heap[message].status = COMPLETED,
                            !.heap[message].updatedAt = t,
                            !.processingMessages = @ \ {messageId}],
                  message, TRUE)

complete_ResetsAttempts(q, t, messageId) ==
  LET message == findMessageById(q, messageId)
  IN IF message = Undefined
     THEN Outcome(q, Undefined, FALSE)
     ELSE Outcome([q EXCEPT !.heap[message].status = COMPLETED,
                            !.heap[message].updatedAt = t,
                            !.heap[message].processingAttempts = 0,
                            !.processingMessages = @ \ {messageId}],
                  message, TRUE)

complete(q, t, messageId) ==
  LET message == findMessageById(q, messageId)
  IN IF message = Undefined
     THEN Outcome(q, Undefined, FALSE)
     ELSE Outcome([q EXCEPT !.heap[message].status = COMPLETED,
                            !.heap[message].updatedAt = t,
                            !.processingMessages = @ \ {messageId}],
                  message, TRUE)

\* line 275: processingAttempts < maxRetries
ShouldRetry_OneMore(processingAttempts, maxRetries) ==
  processingAttempts <= maxRetries

ShouldRetry(processingAttempts, maxRetries) ==
  processingAttempts < maxRetries

\* fail(messageId, reason) at time t under options o; the reason is not
\* modelled beyond being set.
fail(q, o, t, messageId) ==
  LET message == findMessageById(q, messageId)
      NotIt(r) == q.heap[r].id # messageId
      \* lines 268-272
      q1 == [q EXCEPT !.heap[message].status = FAILED,
                      !.heap[message].updatedAt = t,
                      !.heap[message].failureReason = Reason,
                      !.heap[message].processingAttempts = @ + 1,
                      !.processingMessages = @ \ {messageId}]
      \* lines 277-283
      h2 == [q1.heap EXCEPT ![message].status = DELAYED,
                            ![message].delayUntil = t + o.retryDelay]
      q2 == [Reassign(q1, "messages", Filter(q1.messages, NotIt))
               EXCEPT !.heap = h2,
                      !.delayedMessages = Sort(h2, Append(@, message))]
      \* lines 292-295
      q3 == [Reassign(Reassign(q1, "messages", Filter(q1.messages, NotIt)),
                      "delayedMessages", Filter(q1.delayedMessages, NotIt))
               EXCEPT !.heap[message].status = DEAD_LETTER,
                      !.deadLetterMessages = Append(@, message)]
  IN IF message = Undefined
     THEN Outcome(q, Undefined, FALSE)
     ELSE IF ShouldRetry(q1.heap[message].processingAttempts, o.maxRetries)
          THEN IF o.autoCheckDelayed
               THEN Outcome(checkDelayedMessages(q2, t), message, TRUE)
               ELSE Outcome(q2, message, TRUE)
          ELSE IF o.deadLetterEnabled
               THEN Outcome(q3, message, TRUE)
               ELSE Outcome(q1, message, TRUE)

\* cancelDelayed(messageId)
cancelDelayed_ReadyToo(q, messageId) ==
  LET message == findMessageById(q, messageId)
      NotIt(r) == q.heap[r].id # messageId
  IN IF message = Undefined \/ message \in Range(q.deadLetterMessages)
     THEN Outcome(q, Undefined, FALSE)
     ELSE Outcome([q EXCEPT !.messages = Filter(@, NotIt),
                            !.delayedMessages = Filter(@, NotIt)],
                  message, TRUE)

cancelDelayed(q, messageId) ==
  LET index == FindIndex(q.delayedMessages, LAMBDA r : q.heap[r].id = messageId)
  IN IF index = 0
     THEN Outcome(q, Undefined, FALSE)
     ELSE Outcome([q EXCEPT !.delayedMessages = Splice(@, index)],
                  q.delayedMessages[index], TRUE)

\* retryDeadLetter(messageId) at time t
retryDeadLetter(q, t, messageId) ==
  LET index == FindIndex(q.deadLetterMessages, LAMBDA r : q.heap[r].id = messageId)
      message == q.deadLetterMessages[index]
      h2 == [q.heap EXCEPT ![message].processingAttempts = 0,
                           ![message].processingStartedAt = Undefined,
                           ![message].status = PENDING,
                           ![message].updatedAt = t,
                           ![message].failureReason = Undefined,
                           ![message].delayUntil = Undefined]
  IN IF index = 0
     THEN Outcome(q, Undefined, FALSE)
     ELSE Outcome([q EXCEPT !.heap = h2,
                            !.deadLetterMessages = Splice(@, index),
                            !.messages = Sort(h2, Append(@, message))],
                  message, TRUE)

\* clear() that forgets the dead-letter collection.
clear_KeepsDeadLetter(q) ==
  [Reassign(Reassign(q, "messages", <<>>), "delayedMessages", <<>>)
     EXCEPT !.processingMessages = {}]

\* clear(); dispose() leaves the same collections
clear(q) ==
  [Reassign(Reassign(Reassign(q, "messages", <<>>), "delayedMessages", <<>>),
            "deadLetterMessages", <<>>)
     EXCEPT !.processingMessages = {}]

\* saveState(): the state object of lines 91-96 goes to the driver, which
\* keeps it (MemoryStorageDriver.save); nothing happens without persistence.
saveState(q, o) ==
  IF ~o.persistenceEnabled THEN q
  ELSE [q EXCEPT !.storage =
          <<[f \in Fields |-> [id |-> q.ident[f], items |-> <<>>]]>>]

\* loadState() up to its await: MemoryStorageDriver.load has read the stored
\* value (or null) when the call returns.
loadStateCall(q, o) ==
  IF ~o.persistenceEnabled THEN q
  ELSE [q EXCEPT !.loading = Append(@, q.storage)]

\* loadState() after its await, without the sweep of line 124.
loadStateResume_NoSweep(q, t) ==
  LET state == Head(q.loading)
      rest == [q EXCEPT !.loading = Tail(@)]
      Items(f) == IF state[1][f].id = rest.ident[f] THEN rest[f]
                  ELSE state[1][f].items
      q1 == Assign(rest, "messages", state[1]["messages"].id, Items("messages"))
      q2 == Assign(q1, "delayedMessages", state[1]["delayedMessages"].id,
                   Items("delayedMessages"))
      q3 == Assign(q2, "deadLetterMessages", state[1]["deadLetterMessages"].id,
                   Items("deadLetterMessages"))
  IN IF state = <<>> THEN rest ELSE q3

\* loadState() after its await, at time t: lines 118-125 on the value the
\* oldest waiting call has read.
loadStateResume(q, t) ==
  LET state == Head(q.loading)
      rest == [q EXCEPT !.loading = Tail(@)]
      Items(f) == IF state[1][f].id = rest.ident[f] THEN rest[f]
                  ELSE state[1][f].items
      q1 == Assign(rest, "messages", state[1]["messages"].id, Items("messages"))
      q2 == Assign(q1, "delayedMessages", state[1]["delayedMessages"].id,
                   Items("delayedMessages"))
      q3 == Assign(q2, "deadLetterMessages", state[1]["deadLetterMessages"].id,
                   Items("deadLetterMessages"))
  IN IF state = <<>> THEN rest ELSE checkDelayedMessages(q3, t)

\* ---------------------------------------------------- AdvancedTopicQueue
\* MockBroadcastChannel.postMessage(message) on this queue's channel: every
\* other channel registered under the name (the peer's, until it is closed)
\* dispatches the message to its listeners, in the order they were added.
postMessage(peerOpen, ls, message) ==
  IF peerOpen THEN [i \in DOMAIN ls |-> <<ls[i], message>>] ELSE <<>>

\* AdvancedTopicQueue.enqueue: super.enqueue, then the post of line 46-48
\* (!options.delay holds for a delay that is 0 or not given).
topicEnqueue_PostsDelayed(q, ch, t, optId, priority, delay) ==
  LET out == enqueue(q, t, optId, priority, delay)
  IN [out |-> out, posted |-> IF ch THEN <<out.msg>> ELSE <<>>]

topicEnqueue(q, ch, t, optId, priority, delay) ==
  LET out == enqueue(q, t, optId, priority, delay)
  IN [out |-> out, posted |-> IF ch /\ delay = 0 THEN <<out.msg>> ELSE <<>>]

\* subscribe(callback) on a queue whose channel is open (ch) and has the
\* listeners ls: the listeners after the call, and the callback the returned
\* function removes (Undefined for the function that does nothing).
subscribe_NoGuard(ch, ls, callback) ==
  [listeners |-> Append(ls, callback), unsubscribe |-> callback]

subscribe(ch, ls, callback) ==
  IF ~ch
  THEN [listeners |-> ls, unsubscribe |-> Undefined]
  ELSE [listeners |-> Append(ls, callback), unsubscribe |-> callback]

\* The function subscribe returned for the callback, called: line 71.
unsubscribe_Keeps(ch, ls, callback) == ls

unsubscribe(ch, ls, callback) ==
  IF ch /\ callback # Undefined
  THEN Filter(ls, LAMBDA h : h # callback)
  ELSE ls

\* ------------------------------------------------------------ the actions
\* The queue's fields become q; the objects q no longer references are dropped.
Becomes(q) ==
  \E n \in {Normalise(q)} :
     /\ heap' = [r \in RefsOf(n) \cup SavedRefs(n) |-> n.heap[r]]
     /\ messages' = n.messages
     /\ delayedMessages' = n.delayedMessages
     /\ deadLetterMessages' = n.deadLetterMessages
     /\ processingMessages' = n.processingMessages
     /\ storage' = n.storage
     /\ loading' = n.loading

Enqueue ==
  /\ \E optId \in Ids \cup {Undefined}, priority \in Priorities,
        delay \in IF options.persistenceEnabled THEN PersistDelays ELSE Delays :
       \E out \in {enqueue(This, now, optId, priority, delay)} :
          /\ Cardinality(DOMAIN out.q.heap) <= MaxObjs
          /\ Becomes(out.q)
          /\ due' = IF optId = Undefined \/ out.msg \in DOMAIN heap
                    THEN due
                    ELSE [due EXCEPT ![optId] =
                            IF delay > 0 THEN now + delay ELSE Undefined]
  /\ UNCHANGED <<options, delayedCheckTimer, persistenceTimer, now>>
  /\ Quiet

Peek ==
  /\ \E out \in {peek(This, now)} : Becomes(out.q)
  /\ UNCHANGED <<options, delayedCheckTimer, persistenceTimer, now, due>>
  /\ Quiet

Dequeue ==
  /\ \E out \in {dequeue(This, now)} : Becomes(out.q)
  /\ UNCHANGED <<options, delayedCheckTimer, persistenceTimer, now, due>>
  /\ Quiet

Complete ==
  /\ \E messageId \in Ids :
       \E out \in {complete(This, now, messageId)} : Becomes(out.q)
  /\ UNCHANGED <<options, delayedCheckTimer, persistenceTimer, now, due>>
  /\ Quiet

\* The model stops failing a message at MaxAttempts attempts (at
\* MaxPersistAttempts on a queue with persistence), and stops a fail that would
\* leave more than MaxTotal entries in the collections.
Fail ==
  /\ \E messageId \in Ids :
       \E out \in {fail(This, options, now, messageId)} :
          /\ out.msg # Undefined =>
               out.q.heap[out.msg].processingAttempts <=
                 IF options.persistenceEnabled THEN MaxPersistAttempts
                 ELSE MaxAttempts
          /\ totalSize(out.q) <= MaxTotal
          /\ Becomes(out.q)
          /\ due' = IF out.ok THEN [due EXCEPT ![messageId] = Undefined] ELSE due
  /\ UNCHANGED <<options, delayedCheckTimer, persistenceTimer, now>>
  /\ Quiet

CancelDelayed ==
  /\ \E messageId \in Ids :
       \E out \in {cancelDelayed(This, messageId)} : Becomes(out.q)
  /\ UNCHANGED <<options, delayedCheckTimer, persistenceTimer, now, due>>
  /\ Quiet

RetryDeadLetter ==
  /\ \E messageId \in Ids :
       \E out \in {retryDeadLetter(This, now, messageId)} :
          /\ Becomes(out.q)
          /\ due' = IF out.ok THEN [due EXCEPT ![messageId] = Undefined] ELSE due
  /\ UNCHANGED <<options, delayedCheckTimer, persistenceTimer, now>>
  /\ Quiet

Clear ==
  /\ \E q \in {clear(This)} : Becomes(q)
  /\ UNCHANGED <<options, delayedCheckTimer, persistenceTimer, now, due>>
  /\ Quiet

\* dispose(): the timers are cleared, then the collections
Dispose ==
  /\ persistenceTimer' = FALSE
  /\ delayedCheckTimer' = FALSE
  /\ \E q \in {clear(This)} : Becomes(q)
  /\ UNCHANGED <<options, now, due>>
  /\ Quiet

\* The interval callback of initDelayedCheck: one sweep, while the timer is set.
DelayedCheck ==
  /\ delayedCheckTimer
  /\ \E q \in {checkDelayedMessages(This, now)} : Becomes(q)
  /\ UNCHANGED <<options, delayedCheckTimer, persistenceTimer, now, due>>
  /\ Quiet

\* Time passes between two calls.
Tick ==
  /\ now < MaxTime
  /\ now' = now + 1
  /\ UNCHANGED <<heap, messages, delayedMessages, deadLetterMessages,
                 processingMessages, options, delayedCheckTimer,
                 persistenceTimer, storage, loading, due>>
  /\ Quiet

\* saveState() called on the queue; the model stops saving after MaxSaves
\* saves.
SaveState ==
  /\ options.persistenceEnabled
  /\ Len(storage) < MaxSaves
  /\ \E q \in {saveState(This, options)} : Becomes(q)
  /\ UNCHANGED <<options, delayedCheckTimer, persistenceTimer, now, due>>
  /\ Quiet

\* The interval callback of initPersistence: one save, while the timer is set.
PersistenceSave ==
  /\ persistenceTimer
  /\ Len(storage) < MaxSaves
  /\ \E q \in {saveState(This, options)} : Becomes(q)
  /\ UNCHANGED <<options, delayedCheckTimer, persistenceTimer, now, due>>
  /\ Quiet

\* loadState() called on the queue; at most MaxLoads calls wait at a time.
LoadState ==
  /\ options.persistenceEnabled
  /\ Len(loading) < MaxLoads
  /\ \E q \in {loadStateCall(This, options)} : Becomes(q)
  /\ UNCHANGED <<options, delayedCheckTimer, persistenceTimer, now, due>>
  /\ Quiet

\* The oldest waiting loadState() goes on after its await; the model stops a
\* load that would leave more than MaxTotal entries in the collections.
LoadStateResume ==
  /\ loading # <<>>
  /\ \E q \in {loadStateResume(This, now)} :
       /\ totalSize(q) <= MaxTotal
       /\ Becomes(q)
  /\ UNCHANGED <<options, delayedCheckTimer, persistenceTimer, now, due>>
  /\ Quiet

\* The fields of the queue other than its channel.
queueVars ==
  <<heap, messages, delayedMessages, deadLetterMessages, processingMessages,
    options, delayedCheckTimer, persistenceTimer, storage, loading, now, due>>

\* AdvancedTopicQueue.enqueue(data, {id, priority, delay})
TopicEnqueueWith(optId, priority, delay) ==
  \E res \in {topicEnqueue(This, channel, now, optId, priority, delay)} :
    /\ Cardinality(DOMAIN res.out.q.heap) <= MaxObjs
    /\ Becomes(res.out.q)
    /\ due' = IF optId = Undefined \/ res.out.msg \in DOMAIN heap
              THEN due
              ELSE [due EXCEPT ![optId] =
                      IF delay > 0 THEN now + delay ELSE Undefined]
    /\ posted' = res.posted
    /\ invoked' = IF res.posted = <<>> THEN <<>>
                  ELSE postMessage(peerChannel, peerListeners, res.out.msg)
    /\ logged' = FALSE
    /\ UNCHANGED <<options, delayedCheckTimer, persistenceTimer, now,
                   channel, listeners, peerChannel, peerListeners,
                   driver, loaded, fleet>>

TopicEnqueue ==
  \E optId \in Ids \cup {Undefined}, priority \in TopicPriorities, delay \in Delays :
    TopicEnqueueWith(optId, priority, delay)

\* subscribe(callback) on this queue; a callback is subscribed once at a time.
Subscribe ==
  /\ \E callback \in Handlers \ Range(listeners) :
       listeners' = subscribe(channel, listeners, callback).listeners
  /\ posted' = <<>>
  /\ invoked' = <<>>
  /\ logged' = FALSE
  /\ UNCHANGED <<driver, loaded, fleet>>
  /\ UNCHANGED <<queueVars, channel, peerChannel, peerListeners>>

\* A function that subscribe returned is called.
Unsubscribe ==
  /\ \E callback \in Handlers \cup {Undefined} :
       listeners' = unsubscribe(channel, listeners, callback)
  /\ posted' = <<>>
  /\ invoked' = <<>>
  /\ logged' = FALSE
  /\ UNCHANGED <<driver, loaded, fleet>>
  /\ UNCHANGED <<queueVars, channel, peerChannel, peerListeners>>

\* subscribe(callback) on the second queue
PeerSubscribeOf(callback) ==
  /\ callback \notin Range(peerListeners)
  /\ peerListeners' = subscribe(peerChannel, peerListeners, callback).listeners
  /\ posted' = <<>>
  /\ invoked' = <<>>
  /\ logged' = FALSE
  /\ UNCHANGED <<driver, loaded, fleet>>
  /\ UNCHANGED <<queueVars, channel, listeners, peerChannel>>

PeerSubscribe == \E callback \in Handlers : PeerSubscribeOf(callback)

\* A function that subscribe returned on the second queue is called.
PeerUnsubscribeOf(callback) ==
  /\ peerListeners' = unsubscribe(peerChannel, peerListeners, callback)
  /\ posted' = <<>>
  /\ invoked' = <<>>
  /\ logged' = FALSE
  /\ UNCHANGED <<driver, loaded, fleet>>
  /\ UNCHANGED <<queueVars, channel, listeners, peerChannel>>

PeerUnsubscribe == \E callback \in Handlers \cup {Undefined} : PeerUnsubscribeOf(callback)

\* close(): the channel is closed and forgotten with its listeners, then
\* super.dispose().
Close ==
  /\ channel' = FALSE
  /\ listeners' = <<>>
  /\ persistenceTimer' = FALSE
  /\ delayedCheckTimer' = FALSE
  /\ \E q \in {clear(This)} : Becomes(q)
  /\ posted' = <<>>
  /\ invoked' = <<>>
  /\ logged' = FALSE
  /\ UNCHANGED <<driver, loaded, fleet>>
  /\ UNCHANGED <<options, now, due, peerChannel, peerListeners>>

\* close() on the second queue
PeerClose ==
  /\ peerChannel' = FALSE
  /\ peerListeners' = <<>>
  /\ posted' = <<>>
  /\ invoked' = <<>>
  /\ logged' = FALSE
  /\ UNCHANGED <<driver, loaded, fleet>>
  /\ UNCHANGED <<queueVars, channel, listeners>>

\* ------------------------------------------------------ the specification
\* new AdvancedQueue(options): the collections are empty; the sweep timer is
\* set when autoCheckDelayed is; with persistenceEnabled the save timer is set
\* and a loadState() that read null (nothing is stored under the key of a new
\* queueId) waits at its await.
QueueOptions ==
  [maxRetries : 1..MaxRetriesBound,
   retryDelay : RetryDelays,
   deadLetterEnabled : BOOLEAN,
   autoCheckDelayed : BOOLEAN,
   persistenceEnabled : BOOLEAN]

Constructed(o) ==
  /\ heap = <<>>
  /\ messages = <<>>
  /\ delayedMessages = <<>>
  /\ deadLetterMessages = <<>>
  /\ processingMessages = {}
  /\ options = o
  /\ delayedCheckTimer = o.autoCheckDelayed
  /\ persistenceTimer = o.persistenceEnabled
  /\ storage = <<>>
  /\ loading = IF o.persistenceEnabled THEN << <<>> >> ELSE <<>>
  /\ now = StartTime
  /\ due = [id \in Ids |-> Undefined]
  /\ listeners = <<>>
  /\ peerListeners = <<>>
  /\ posted = <<>>
  /\ invoked = <<>>
  /\ logged = FALSE
  /\ driver = [key \in Keys |-> Undefined]
  /\ loaded = Undefined
  /\ fleet = [ids |-> <<>>, restored |-> <<>>,
              store |-> [key \in StoreKeys |-> Undefined]]

\* Persistence is off by default (DEFAULT_QUEUE_OPTIONS).  An AdvancedQueue
\* has no channel.
NoChannel == channel = FALSE /\ peerChannel = FALSE

Init ==
  \E o \in QueueOptions : ~o.persistenceEnabled /\ Constructed(o) /\ NoChannel

Next ==
  \/ Enqueue
  \/ Peek
  \/ Dequeue
  \/ Complete
  \/ Fail
  \/ CancelDelayed
  \/ RetryDeadLetter
  \/ Clear
  \/ Dispose
  \/ DelayedCheck
  \/ Tick

Spec == Init /\ [][Next]_vars

\* The queue with persistence on the in-memory driver, for one set of
\* options, no time passing between the calls.
InitPersist ==
  \E o \in QueueOptions :
    /\ o.persistenceEnabled
    /\ o.maxRetries = MaxRetriesBound
    /\ o.retryDelay = 0
    /\ o.deadLetterEnabled
    /\ o.autoCheckDelayed
    /\ Constructed(o)
    /\ NoChannel

NextPersist ==
  \/ Enqueue
  \/ Peek
  \/ Dequeue
  \/ Complete
  \/ Fail
  \/ CancelDelayed
  \/ RetryDeadLetter
  \/ Clear
  \/ Dispose
  \/ DelayedCheck
  \/ SaveState
  \/ PersistenceSave
  \/ LoadState
  \/ LoadStateResume

SpecPersist == InitPersist /\ [][NextPersist]_vars

\* Two AdvancedTopicQueue on one channel name, for one set of options: this
\* queue, whose channel may be missing, and a second one that subscribes.
InitTopic ==
  \E o \in QueueOptions :
    /\ ~o.persistenceEnabled
    /\ o.maxRetries = 1
    /\ o.retryDelay = 0
    /\ o.deadLetterEnabled
    /\ ~o.autoCheckDelayed
    /\ Constructed(o)
    /\ channel \in BOOLEAN
    /\ peerChannel = TRUE

NextTopic ==
  \/ TopicEnqueue
  \/ Peek
  \/ Dequeue
  \/ Complete
  \/ Fail
  \/ CancelDelayed
  \/ RetryDeadLetter
  \/ Clear
  \/ Dispose
  \/ Tick
  \/ Subscribe
  \/ Unsubscribe
  \/ PeerSubscribe
  \/ PeerUnsubscribe
  \/ Close
  \/ PeerClose

SpecTopic == InitTopic /\ [][NextTopic]_vars

\* =================================================================== claims
\* The collections one after the other.
AllEntries == messages \o delayedMessages \o deadLetterMessages

\* a goes strictly before b in the ordering policy: higher priority, or the
\* same priority and created earlier.
GoesBefore(a, b) ==
  \/ a.priority > b.priority
  \/ a.priority = b.priority /\ a.createdAt < b.createdAt

\* The Pending messages of the ready collection of q.
PendingOf(q) == {r \in Range(q.messages) : q.heap[r].status = PENDING}

\* C1: in every reachable state dequeue() returns, among the messages that are
\* Pending in the ready collection after dequeue's own sweep, one that no other
\* goes before (highest priority, then smallest createdAt), and it returns
\* nothing exactly when none is Pending.
C1_DequeueOrder ==
  LET out == dequeue(This, now)
      swept == checkDelayedMessages(This, now)
  IN /\ (out.msg = Undefined) <=> (PendingOf(swept) = {})
     /\ out.msg # Undefined =>
          /\ out.msg \in PendingOf(swept)
          /\ \A r \in PendingOf(swept) :
               ~GoesBefore(swept.heap[r], swept.heap[out.msg])

\* C1 witness: dequeue took a message of higher priority that was created
\* later than a message still Pending in the ready collection.
C1_Witness ==
  \E r1, r2 \in Range(messages) :
    /\ heap[r1].status = PROCESSING
    /\ heap[r1].processingStartedAt = now
    /\ heap[r2].status = PENDING
    /\ heap[r1].priority > heap[r2].priority
    /\ heap[r1].createdAt > heap[r2].createdAt

\* C2: no id occurs twice in the ready, delayed and dead-letter collections
\* taken together.
C2_UniqueIds ==
  \A i, j \in DOMAIN AllEntries :
    i # j => heap[AllEntries[i]].id # heap[AllEntries[j]].id

\* C3: when a message with id X is in any collection, enqueue(payload, {id: X})
\* returns that message and changes nothing; and from a state without X, a
\* first enqueue of X raises totalSize() by 1 and a second one, with whatever
\* options and at whatever later time, returns the same message and changes
\* nothing.
C3_EnqueueIdempotent ==
  \A X \in Ids \cup IdsOf(heap, AllEntries), p \in Priorities, d \in Delays :
    IF X \in IdsOf(heap, AllEntries)
    THEN /\ findMessageById(This, X) # Undefined
         /\ enqueue(This, now, X, p, d) =
              Outcome(This, findMessageById(This, X), TRUE)
    ELSE LET first == enqueue(This, now, X, p, d)
         IN /\ totalSize(first.q) = totalSize(This) + 1
            /\ first.q.heap[first.msg].id = X
            /\ \A p2 \in Priorities, d2 \in Delays, t2 \in now..MaxTime :
                 enqueue(first.q, t2, X, p2, d2) = Outcome(first.q, first.msg, TRUE)

\* C3 witness: a message enqueued under a caller's id is held outside the
\* ready collection (delayed, or dead-lettered after a fail).
C3_Witness ==
  \E X \in Ids :
    /\ X \notin IdsOf(heap, messages)
    /\ X \in IdsOf(heap, deadLetterMessages)
    /\ Len(messages) > 0

\* C4 as stated: with deadLetterEnabled, failing a Processing message for the
\* k-th time leaves it Delayed in the delayed collection with
\* processingAttempts = k when k < maxRetries, and DeadLetter in the dead-letter
\* collection only, with processingAttempts = maxRetries, otherwise.
C4_RetryThenDeadLetter ==
  \A id \in Ids :
    LET m == findMessageById(This, id)
        out == fail(This, options, now, id)
        k == heap[m].processingAttempts + 1
    IN (options.deadLetterEnabled /\ m # Undefined /\ heap[m].status = PROCESSING) =>
         IF k < options.maxRetries
         THEN /\ m \in Range(out.q.delayedMessages)
              /\ out.q.heap[m].status = DELAYED
              /\ out.q.heap[m].processingAttempts = k
         ELSE /\ m \in Range(out.q.deadLetterMessages)
              /\ m \notin Range(out.q.messages) \cup Range(out.q.delayedMessages)
              /\ out.q.heap[m].status = DEAD_LETTER
              /\ out.q.heap[m].processingAttempts = options.maxRetries

\* C4 amended: the same, but when autoCheckDelayed is set and retryDelay is 0
\* the sweep that fail itself runs has already returned the message of a k-th
\* fail, k < maxRetries, to the ready collection as Pending.
C4_RetryThenDeadLetterAmended ==
  \A id \in Ids :
    LET m == findMessageById(This, id)
        out == fail(This, options, now, id)
        k == heap[m].processingAttempts + 1
    IN (options.deadLetterEnabled /\ m # Undefined /\ heap[m].status = PROCESSING) =>
         IF k < options.maxRetries
         THEN /\ out.q.heap[m].processingAttempts = k
              /\ IF options.autoCheckDelayed /\ options.retryDelay = 0
                 THEN /\ m \in Range(out.q.messages)
                      /\ m \notin Range(out.q.delayedMessages)
                      /\ out.q.heap[m].status = PENDING
                 ELSE /\ m \in Range(out.q.delayedMessages)
                      /\ m \notin Range(out.q.messages)
                      /\ out.q.heap[m].status = DELAYED
         ELSE /\ m \in Range(out.q.deadLetterMessages)
              /\ m \notin Range(out.q.messages) \cup Range(out.q.delayedMessages)
              /\ out.q.heap[m].status = DEAD_LETTER
              /\ out.q.heap[m].processingAttempts = options.maxRetries

\* C4 witness: a message that was dequeued, failed, retried after its delay,
\* dequeued and failed again is dead-lettered with maxRetries = 2 attempts.
C4_Witness ==
  /\ options.deadLetterEnabled
  /\ options.maxRetries = 2
  /\ options.retryDelay = 1
  /\ \E r \in Range(deadLetterMessages) :
       /\ heap[r].status = DEAD_LETTER
       /\ heap[r].processingAttempts = 2
       /\ heap[r].processingStartedAt = now
       /\ heap[r].delayUntil = now
       /\ r \notin Range(messages) \cup Range(delayedMessages)

\* C5: peek() and dequeue() never return a message whose id dequeue() has
\* handed out and that has not been completed, failed or cleared since (the
\* ids of processingMessages).
C5_NotReturnedTwice ==
  /\ dequeue(This, now).msg # Undefined =>
       heap[dequeue(This, now).msg].id \notin processingMessages
  /\ peek(This, now).msg # Undefined =>
       heap[peek(This, now).msg].id \notin processingMessages

\* A message with id `id` is Pending in the ready collection (size() counts it).
InReadyPending(id) ==
  \E r \in Range(messages) : heap[r].id = id /\ heap[r].status = PENDING

\* The id of the message a call returned, or Undefined.
ReturnedId(out) == IF out.msg = Undefined THEN Undefined ELSE out.q.heap[out.msg].id

\* C6, first half: a message enqueued with a delay d > 0 at time T, on which
\* fail and retryDeadLetter were not called, is not in the ready collection
\* (size() does not count it) and is not returned by peek() or dequeue() while
\* now < T + d.
C6_HeldBack ==
  \A id \in Ids :
    (due[id] # Undefined /\ now < due[id]) =>
      /\ id \notin IdsOf(heap, messages)
      /\ ReturnedId(peek(This, now)) # id
      /\ ReturnedId(dequeue(This, now)) # id

\* C6 as stated: the first half, and after a sweep at a time >= T + d such a
\* message (not promoted before) is Pending in the ready collection.
C6_DelayedDelivery ==
  /\ []C6_HeldBack
  /\ [][(Peek \/ DelayedCheck) =>
          \A id \in Ids :
            (due[id] # Undefined /\ due[id] <= now /\ id \notin IdsOf(heap, messages))
              => InReadyPending(id)']_vars

\* C6 amended: the same, provided the message was not removed either
\* (cancelDelayed, clear, dispose): it is still in the delayed collection when
\* the sweep runs.
C6_DelayedDeliveryAmended ==
  /\ []C6_HeldBack
  /\ [][(Peek \/ DelayedCheck) =>
          \A id \in Ids :
            (/\ due[id] # Undefined
             /\ due[id] <= now
             /\ id \notin IdsOf(heap, messages)
             /\ id \in IdsOf(heap, delayedMessages))
              => InReadyPending(id)']_vars

\* C6 witness: a message enqueued with a delay at an earlier time has just
\* been promoted by a sweep at its due time.
C6_Witness ==
  \E id \in Ids, r \in Range(messages) :
    /\ heap[r].id = id
    /\ due[id] = now
    /\ heap[r].createdAt < now
    /\ heap[r].status = PENDING
    /\ heap[r].updatedAt = now
    /\ heap[r].processingAttempts = 0

StatusChanged == {r \in DOMAIN heap \cap DOMAIN heap' : heap[r].status # heap'[r].status}

\* The delay of r has elapsed in the delayed collection before the step.
DueInDelayed(r) ==
  /\ r \in Range(delayedMessages)
  /\ heap[r].delayUntil # Undefined
  /\ heap[r].delayUntil <= now

\* C8 as stated: every change of status is Pending -> Processing by dequeue,
\* Processing -> Completed by complete, Processing -> Delayed, DeadLetter or
\* Failed by fail, Delayed -> Pending by a sweep after the delay elapsed, or
\* DeadLetter -> Pending by retryDeadLetter (a call that sweeps first, or last,
\* makes two of these transitions in one step).
C8_StateMachine ==
  [][\A r \in StatusChanged :
       LET old == heap[r].status
           new == heap'[r].status
       IN \/ /\ Dequeue
             /\ new = PROCESSING
             /\ old = PENDING \/ (old = DELAYED /\ DueInDelayed(r))
          \/ Complete /\ old = PROCESSING /\ new = COMPLETED
          \/ /\ Fail
             /\ old = PROCESSING
             /\ \/ new \in {DELAYED, DEAD_LETTER, FAILED}
                \/ /\ new = PENDING
                   /\ options.autoCheckDelayed
                   /\ heap'[r].delayUntil <= now
          \/ /\ Peek \/ Dequeue \/ DelayedCheck \/ (Fail /\ options.autoCheckDelayed)
             /\ old = DELAYED
             /\ DueInDelayed(r)
             /\ new = PENDING
          \/ RetryDeadLetter /\ old = DEAD_LETTER /\ new = PENDING]_vars

\* C8 amended: complete and fail act on the message they find whatever its
\* status, a sweep promotes every message of the delayed collection whose
\* delayUntil has elapsed whatever its status, and retryDeadLetter returns a
\* message of the dead-letter collection to Pending whatever its status.
C8_StateMachineAmended ==
  [][\A r \in StatusChanged :
       LET old == heap[r].status
           new == heap'[r].status
       IN \/ /\ Dequeue
             /\ new = PROCESSING
             /\ old = PENDING \/ DueInDelayed(r)
          \/ Complete /\ new = COMPLETED
          \/ /\ Fail
             /\ \/ new \in {DELAYED, DEAD_LETTER, FAILED}
                \/ /\ new = PENDING
                   /\ options.autoCheckDelayed
                   /\ heap'[r].delayUntil <= now
          \/ /\ Peek \/ Dequeue \/ DelayedCheck \/ (Fail /\ options.autoCheckDelayed)
             /\ DueInDelayed(r)
             /\ new = PENDING
          \/ RetryDeadLetter /\ r \in Range(deadLetterMessages) /\ new = PENDING]_vars

\* C8 witness: a message that was never dequeued has been failed once and is
\* waiting for its retry.
C8_Witness ==
  \E r \in Range(delayedMessages) :
    /\ heap[r].status = DELAYED
    /\ heap[r].processingAttempts = 1
    /\ heap[r].processingStartedAt = Undefined

\* C9: with deadLetterEnabled = false, a fail(id) that brings
\* processingAttempts to maxRetries or more leaves the message Failed in the
\* ready collection, and no sweep, peek or dequeue returns it or changes the
\* status of a message so parked.
C9_ParkedAtFail ==
  \A id \in Ids :
    LET m == findMessageById(This, id)
        out == fail(This, options, now, id)
    IN (/\ ~options.deadLetterEnabled
        /\ m # Undefined
        /\ out.q.heap[m].processingAttempts >= options.maxRetries) =>
         /\ out.q.heap[m].status = FAILED
         /\ m \in Range(out.q.messages)

\* C9 as a whole: the state a retries-exhausting fail leaves (above), and a
\* Failed message with exhausted retries keeps its status through every
\* sweep and is returned by neither peek nor dequeue.
C9_FailedIsParked ==
  /\ []C9_ParkedAtFail
  /\ [][(Peek \/ Dequeue \/ DelayedCheck) =>
          \A r \in DOMAIN heap :
            (/\ ~options.deadLetterEnabled
             /\ heap[r].status = FAILED
             /\ heap[r].processingAttempts >= options.maxRetries) =>
              /\ heap'[r].status = FAILED
              /\ dequeue(This, now).msg # r
              /\ peek(This, now).msg # r]_vars

\* The collections that hold r.
HoldersOf(r) ==
  {c \in {"ready", "delayed", "dead"} :
     \/ c = "ready" /\ r \in Range(messages)
     \/ c = "delayed" /\ r \in Range(delayedMessages)
     \/ c = "dead" /\ r \in Range(deadLetterMessages)}

\* C10: no automatic step (the sweep of peek or dequeue, the sweep timer,
\* dequeue's selection) changes the status of a Completed message or moves it
\* to another collection.
C10_CompletedStays ==
  [][(Peek \/ Dequeue \/ DelayedCheck) =>
       \A r \in DOMAIN heap :
         heap[r].status = COMPLETED =>
           /\ r \in DOMAIN heap'
           /\ heap'[r].status = COMPLETED
           /\ HoldersOf(r)' = HoldersOf(r)]_vars

\* C11: retryDeadLetter(id) on an id of the dead-letter collection returns
\* true, leaves no message with that id in the dead-letter collection and has
\* the message in the ready collection, Pending, with processingAttempts = 0
\* and failureReason, delayUntil and processingStartedAt cleared; on another
\* id it returns false.
C11_RetryDeadLetter ==
  \A id \in Ids :
    LET out == retryDeadLetter(This, now, id)
    IN IF id \in IdsOf(heap, deadLetterMessages)
       THEN /\ out.ok
            /\ id \notin IdsOf(out.q.heap, out.q.deadLetterMessages)
            /\ out.msg \in Range(out.q.messages)
            /\ out.q.heap[out.msg].id = id
            /\ out.q.heap[out.msg].status = PENDING
            /\ out.q.heap[out.msg].processingAttempts = 0
            /\ out.q.heap[out.msg].failureReason = Undefined
            /\ out.q.heap[out.msg].delayUntil = Undefined
            /\ out.q.heap[out.msg].processingStartedAt = Undefined
       ELSE ~out.ok

\* C12: cancelDelayed(id) returns true exactly when id is in the delayed
\* collection, and otherwise changes nothing.
C12_CancelDelayed ==
  \A id \in Ids \cup IdsOf(heap, AllEntries) :
    LET out == cancelDelayed(This, id)
    IN /\ out.ok <=> id \in IdsOf(heap, delayedMessages)
       /\ id \notin IdsOf(heap, delayedMessages) => out.q = This

\* C12 witness: a message that was delayed has been promoted to Pending in the
\* ready collection (cancelDelayed on it now returns false).
C12_Witness ==
  \E r \in Range(messages) :
    /\ heap[r].id \in Ids
    /\ heap[r].status = PENDING
    /\ heap[r].delayUntil # Undefined
    /\ heap[r].id \notin IdsOf(heap, delayedMessages)

\* C13: for an id that is in no collection, complete, fail, cancelDelayed and
\* retryDeadLetter return false and change nothing, and findMessageById finds
\* nothing.
C13_NotFound ==
  \A id \in Ids \ IdsOf(heap, AllEntries) :
    /\ findMessageById(This, id) = Undefined
    /\ complete(This, now, id) = Outcome(This, Undefined, FALSE)
    /\ fail(This, options, now, id) = Outcome(This, Undefined, FALSE)
    /\ cancelDelayed(This, id) = Outcome(This, Undefined, FALSE)
    /\ retryDeadLetter(This, now, id) = Outcome(This, Undefined, FALSE)

\* C13 witness: the collections hold messages, one of them handed out by
\* dequeue, and none has the caller's id.
C13_Witness ==
  /\ Ids \ IdsOf(heap, AllEntries) # {}
  /\ Len(messages) > 0
  /\ Len(delayedMessages) > 0
  /\ processingMessages # {}

\* C14: processingAttempts is 0 for a new message, one more after each
\* fail(id) that finds the message, and otherwise never lower after a step
\* than before it, except 0 after retryDeadLetter on the message.
C14_FailCounts ==
  \A id \in Ids :
    LET m == findMessageById(This, id)
        out == fail(This, options, now, id)
    IN IF m = Undefined THEN ~out.ok
       ELSE /\ out.ok
            /\ out.q.heap[m].processingAttempts = heap[m].processingAttempts + 1

C15_DelayUntilOnlyDelayed ==
  \A r \in DOMAIN heap :
    heap[r].delayUntil # Undefined => heap[r].status = DELAYED

\* C16: enqueue of a new id with a delay > 0 creates a Delayed message in the
\* delayed collection, and otherwise (delay 0 or negative) a Pending message
\* in the ready collection; processingAttempts is 0 and the priority is the
\* given one.
C16_EnqueuePlacement ==
  \A optId \in (Ids \ IdsOf(heap, AllEntries)) \cup {Undefined},
     priority \in Priorities, delay \in Delays :
    LET out == enqueue(This, now, optId, priority, delay)
        m == out.q.heap[out.msg]
    IN /\ out.msg \notin DOMAIN heap
       /\ m.processingAttempts = 0
       /\ m.priority = priority
       /\ IF delay > 0
          THEN /\ m.status = DELAYED
               /\ out.msg \in Range(out.q.delayedMessages)
               /\ out.msg \notin Range(out.q.messages)
          ELSE /\ m.status = PENDING
               /\ out.msg \in Range(out.q.messages)
               /\ out.msg \notin Range(out.q.delayedMessages)

\* The inputs of enqueue on the topic queue.
TopicInputs == (Ids \cup {Undefined}) \X TopicPriorities \X Delays

\* C17: while the channel is open, an enqueue that creates a message and
\* carries no delay posts exactly that message, once; an enqueue that carries
\* a delay posts nothing; and no step other than an enqueue posts anything.
C17_PostOncePerEnqueue ==
  [][channel =>
       /\ \A in \in TopicInputs :
            TopicEnqueueWith(in[1], in[2], in[3]) =>
              LET out == enqueue(This, now, in[1], in[2], in[3])
              IN /\ (in[3] = 0 /\ out.msg \notin DOMAIN heap) => posted' = <<out.msg>>
                 /\ in[3] # 0 => posted' = <<>>
       /\ ~TopicEnqueue => posted' = <<>>]_vars

\* C17 witness: on an open channel a message enqueued with a delay has been
\* promoted by a sweep, and the step posted nothing.
C17_Witness ==
  /\ channel
  /\ posted = <<>>
  /\ \E r \in Range(messages) :
       /\ heap[r].status = PENDING
       /\ heap[r].delayUntil # Undefined
       /\ heap[r].updatedAt > heap[r].createdAt

\* C18: while the channel is open, an enqueue under an id that is already in
\* a collection posts nothing.
C18_NoRepost ==
  [][channel =>
       \A in \in TopicInputs :
         TopicEnqueueWith(in[1], in[2], in[3]) =>
           (enqueue(This, now, in[1], in[2], in[3]).msg \in DOMAIN heap
              => posted' = <<>>)]_vars

\* The number of times the step invoked the callback h.
Invocations(h) == Cardinality({i \in DOMAIN invoked' : invoked'[i][1] = h})

\* C19: with both channels open, an enqueue without a delay on this queue
\* invokes once every callback subscribed on the second queue and no other
\* callback, an enqueue with a delay and every other step invoke none, and a
\* callback is not subscribed any more once its unsubscribe function has
\* been called.
C19_SubscribeUnsubscribe ==
  [][/\ \A in \in TopicInputs :
          (TopicEnqueueWith(in[1], in[2], in[3]) /\ channel /\ peerChannel) =>
            \A h \in Handlers :
              Invocations(h) =
                IF in[3] = 0 /\ h \in Range(peerListeners) THEN 1 ELSE 0
     /\ ~TopicEnqueue => invoked' = <<>>
     /\ \A h \in Handlers :
          (PeerUnsubscribeOf(h) /\ peerChannel) => h \notin Range(peerListeners')]_vars

\* C19 witness: an enqueue on this queue has invoked a callback subscribed on
\* the second queue.
C19_Witness ==
  /\ invoked # <<>>
  /\ posted # <<>>
  /\ peerListeners # <<>>

\* C20: on a queue without a channel, subscribe registers nothing and returns
\* the function that does nothing, calling that function changes nothing, and
\* enqueue does what AdvancedQueue.enqueue does and posts nothing.
C20_NoChannel ==
  ~channel =>
    /\ \A h \in Handlers :
         subscribe(channel, listeners, h) =
           [listeners |-> listeners, unsubscribe |-> Undefined]
    /\ unsubscribe(channel, listeners, Undefined) = listeners
    /\ \A in \in TopicInputs :
         topicEnqueue(This, channel, now, in[1], in[2], in[3]) =
           [out |-> enqueue(This, now, in[1], in[2], in[3]), posted |-> <<>>]

\* C20 witness: this queue has no channel, a callback is subscribed on the
\* second queue, and an enqueue has stored a message: nothing was posted or
\* invoked.
C20_Witness ==
  /\ ~channel
  /\ peerChannel
  /\ peerListeners # <<>>
  /\ Len(messages) > 0
  /\ posted = <<>>
  /\ invoked = <<>>

C29_PeekThenDequeue ==
  LET p == peek(This, now)
      d == dequeue(p.q, now)
  IN /\ d.msg = p.msg
     /\ \A r \in DOMAIN heap :
          p.q.heap[r].status # heap[r].status =>
            DueInDelayed(r) /\ p.q.heap[r].status = PENDING

\* C29 witness: the message peek() returns now is one its sweep promotes from
\* the delayed collection, ahead of a Pending message of the ready collection.
C29_Witness ==
  LET p == peek(This, now)
  IN /\ p.msg # Undefined
     /\ p.msg \in Range(delayedMessages)
     /\ \E r \in Range(messages) : heap[r].status = PENDING

\* The elapsed messages of the delayed collection at the time of the sweep.
ElapsedNow ==
  {r \in Range(delayedMessages) :
     heap[r].delayUntil # Undefined /\ heap[r].delayUntil <= now}

\* C30: after a sweep at time now no elapsed message is in the delayed
\* collection; each is Pending in the ready collection with updatedAt = now;
\* the other delayed messages are still delayed with their fields unchanged;
\* the messages of the ready and dead-letter collections are unchanged.
C30_SweepPostcondition ==
  LET out == checkDelayedMessages(This, now)
  IN /\ \A r \in Range(out.delayedMessages) :
          ~(out.heap[r].delayUntil # Undefined /\ out.heap[r].delayUntil <= now)
     /\ \A r \in ElapsedNow :
          /\ r \in Range(out.messages)
          /\ out.heap[r].status = PENDING
          /\ out.heap[r].updatedAt = now
     /\ \A r \in Range(delayedMessages) \ ElapsedNow :
          r \in Range(out.delayedMessages) /\ out.heap[r] = heap[r]
     /\ \A r \in Range(messages) :
          r \in Range(out.messages) /\ out.heap[r] = heap[r]
     /\ \A r \in Range(deadLetterMessages) :
          r \in Range(out.deadLetterMessages) /\ out.heap[r] = heap[r]



\* ---------------------------------------------------------------------------
\* MemoryStorageDriver, driven directly.

\* this.storage[key]: the key's own value, or what Object.prototype gives for
\* a key the object does not own.
Lookup(store, key) ==
  IF store[key] # Undefined THEN store[key]
  ELSE IF key = "constructor" THEN Inherited
  ELSE Undefined

\* The values JavaScript's || treats as false: 0 and undefined here.
Falsy(v) == v \in {0, Undefined, Null}

\* MemoryStorageDriver.save(key, data)
driverSave(store, key, data) == [store EXCEPT ![key] = data]

\* MemoryStorageDriver.load(key): this.storage[key] || null
driverLoad(store, key) ==
  IF Falsy(Lookup(store, key)) THEN Null ELSE Lookup(store, key)

\* MemoryStorageDriver.delete(key)
driverDelete(store, key) == [store EXCEPT ![key] = Undefined]

\* MemoryStorageDriver.clear()
driverClear(store) == [key \in Keys |-> Undefined]

\* What the driver's calls leave alone.
DriverFrame ==
  /\ UNCHANGED <<queueVars, channel, listeners, peerChannel, peerListeners, fleet>>
  /\ posted' = <<>>
  /\ invoked' = <<>>
  /\ logged' = FALSE

DriverSave ==
  \E key \in Keys, data \in Values :
    /\ driver' = driverSave(driver, key, data)
    /\ UNCHANGED loaded
    /\ DriverFrame

DriverLoad ==
  \E key \in Keys :
    /\ loaded' = driverLoad(driver, key)
    /\ UNCHANGED driver
    /\ DriverFrame

DriverDelete ==
  \E key \in Keys :
    /\ driver' = driverDelete(driver, key)
    /\ UNCHANGED loaded
    /\ DriverFrame

DriverClear ==
  /\ driver' = driverClear(driver)
  /\ UNCHANGED loaded
  /\ DriverFrame

InitDriver == Init

NextDriver ==
  \/ DriverSave
  \/ DriverLoad
  \/ DriverDelete
  \/ DriverClear

SpecDriver == InitDriver /\ [][NextDriver]_vars

\* C28 as stated: for every key and saved value v, save(key, v) then load(key)
\* yields v; load of a key with no saved value (never saved, deleted, or
\* cleared) yields null; delete(key) leaves every other key's value unchanged.
C28_DriverContract ==
  /\ \A key \in Keys, v \in Values :
       driverLoad(driverSave(driver, key, v), key) = v
  /\ \A key \in Keys :
       /\ driver[key] = Undefined => driverLoad(driver, key) = Null
       /\ driverLoad(driverDelete(driver, key), key) = Null
       /\ driverLoad(driverClear(driver), key) = Null
       /\ \A other \in Keys \ {key} :
            driverDelete(driver, key)[other] = driver[other]


\* ---------------------------------------------------------------------------
\* The queue on a store that refuses every write (LocalStorageDriver when
\* localStorage.setItem throws).

\* LocalStorageDriver.save(key, data): setItem threw, and save logs the error
\* and throws it again; otherwise the item is written.
localSave(rejects) == [threw |-> rejects, logged |-> rejects]

\* saveState() whose driver rejects: an exception thrown.
saveStateOutcome_NoCatch(q, o, rejects) ==
  IF ~o.persistenceEnabled THEN [q |-> q, threw |-> FALSE, logged |-> FALSE]
  ELSE IF localSave(rejects).threw
       THEN [q |-> q, threw |-> TRUE, logged |-> TRUE]
       ELSE [q |-> saveState(q, o), threw |-> FALSE, logged |-> FALSE]

\* saveState(), lines 87-102: the instance after the call, whether the call
\* threw, and whether it wrote a diagnostic.  The try/catch around the driver's
\* save logs the rejection and returns.
saveStateOutcome(q, o, rejects) ==
  IF ~o.persistenceEnabled THEN [q |-> q, threw |-> FALSE, logged |-> FALSE]
  ELSE IF localSave(rejects).threw
       THEN [q |-> q, threw |-> FALSE, logged |-> TRUE]
       ELSE [q |-> saveState(q, o), threw |-> FALSE, logged |-> FALSE]

\* What a rejected save leaves alone besides the instance.
RejectFrame ==
  /\ posted' = <<>>
  /\ invoked' = <<>>
  /\ UNCHANGED <<options, delayedCheckTimer, persistenceTimer, now, due,
                 channel, listeners, peerChannel, peerListeners, driver, loaded, fleet>>

\* saveState() called on the queue, the store rejecting the write.
SaveStateRejected ==
  /\ options.persistenceEnabled
  /\ \E out \in {saveStateOutcome(This, options, TRUE)} :
       /\ Becomes(out.q)
       /\ logged' = out.logged
  /\ RejectFrame

\* The interval callback of initPersistence, the store rejecting the write.
PersistenceSaveRejected ==
  /\ persistenceTimer
  /\ \E out \in {saveStateOutcome(This, options, TRUE)} :
       /\ Becomes(out.q)
       /\ logged' = out.logged
  /\ RejectFrame

\* Queues with and without each of the two timers, on the rejecting store.
InitReject ==
  \E o \in QueueOptions :
    /\ o.maxRetries = 1
    /\ o.retryDelay = 0
    /\ o.deadLetterEnabled
    /\ Constructed(o)
    /\ NoChannel

NextReject ==
  \/ Enqueue
  \/ Peek
  \/ Dequeue
  \/ Complete
  \/ Fail
  \/ CancelDelayed
  \/ RetryDeadLetter
  \/ Clear
  \/ Dispose
  \/ DelayedCheck
  \/ Tick
  \/ SaveStateRejected
  \/ PersistenceSaveRejected
  \/ LoadState
  \/ LoadStateResume

SpecReject == InitReject /\ [][NextReject]_vars

C25_DisposeCancels ==
  /\ [][\/ /\ ~delayedCheckTimer'
           /\ ~persistenceTimer'
           /\ messages' = <<>>
           /\ delayedMessages' = <<>>
           /\ deadLetterMessages' = <<>>
        \/ ~Dispose]_vars
  /\ [][(~delayedCheckTimer => ~delayedCheckTimer')
        /\ (~persistenceTimer => ~persistenceTimer')]_vars
  /\ [](~delayedCheckTimer => ~ENABLED DelayedCheck)
  /\ [](~persistenceTimer => ~ENABLED PersistenceSaveRejected)

\* C25 witness: a queue constructed with both timers has been disposed of
\* while it held messages, and is in use again: a message is ready and no timer
\* is set.
C25_Witness ==
  /\ options.autoCheckDelayed
  /\ options.persistenceEnabled
  /\ ~delayedCheckTimer
  /\ ~persistenceTimer
  /\ Len(messages) > 0


\* The item localStorage holds under the queue's key when it is not the JSON
\* of a saved state: nothing, text JSON.parse rejects, the JSON of a falsy
\* value ("null", "0", "false"), or the JSON of a truthy value without the
\* three lists ("{}", "5").
StoredItems == {"absent", "unparsable", "falsy", "noLists"}

\* LocalStorageDriver.load(key): item ? JSON.parse(item) : null, and null when
\* JSON.parse throws.
localLoad(item) ==
  IF item \in {"absent", "unparsable"} THEN "null" ELSE item

\* loadState() on what the driver resolved with, lines 107-129: a falsy value
\* is skipped; of a truthy value without the lists, state.messages,
\* state.delayedMessages and state.deadLetterMessages are undefined and are
\* assigned, the sweep throws on the undefined delayedMessages, and the catch
\* logs the error.  The instance whose three fields are undefined is the
\* record without them.
loadStateOf(q, o, state) ==
  IF ~o.persistenceEnabled \/ state \in {"null", "falsy"} THEN q
  ELSE [f \in (DOMAIN q) \ Fields |-> q[f]]

\* C23 as stated: a load that finds an item which is not a well-formed state
\* leaves the three collections as they were, and they stay collections the
\* operations can work on.
C23_MalformedIsAbsent ==
  \A item \in StoredItems \ {"absent"} :
    LET q == loadStateOf(This, options, localLoad(item))
    IN /\ Fields \subseteq DOMAIN q
       /\ q.messages = messages
       /\ q.delayedMessages = delayedMessages
       /\ q.deadLetterMessages = deadLetterMessages


\* ---------------------------------------------------------------------------
\* The queue with persistence on the in-memory driver while time passes:
\* failed messages wait out a retry delay and no timer sweeps them.
InitSnapshot ==
  \E o \in QueueOptions :
    /\ o.persistenceEnabled
    /\ o.maxRetries = MaxRetriesBound
    /\ o.retryDelay = 1
    /\ o.deadLetterEnabled
    /\ ~o.autoCheckDelayed
    /\ Constructed(o)
    /\ NoChannel

NextSnapshot ==
  \/ Enqueue
  \/ Peek
  \/ Dequeue
  \/ Complete
  \/ Fail
  \/ RetryDeadLetter
  \/ Tick
  \/ SaveState
  \/ PersistenceSave
  \/ LoadState
  \/ LoadStateResume

SpecSnapshot == InitSnapshot /\ [][NextSnapshot]_vars


\* C24: with no load waiting, saveState() followed at once by loadState() and
\* its resumption leaves in each collection the messages it held, with their
\* ids, statuses and priorities, except that the delayed messages whose delay
\* has elapsed are in the ready collection, Pending.
C24_RoundTrip ==
  loading = <<>> =>
    LET rt == loadStateResume(loadStateCall(saveState(This, options), options), now)
    IN /\ Range(rt.deadLetterMessages) = Range(deadLetterMessages)
       /\ Range(rt.delayedMessages) = Range(delayedMessages) \ ElapsedNow
       /\ Range(rt.messages) = Range(messages) \cup ElapsedNow
       /\ \A r \in RefsOf(This) :
            /\ rt.heap[r].id = heap[r].id
            /\ rt.heap[r].priority = heap[r].priority
            /\ rt.heap[r].status =
                 IF r \in ElapsedNow THEN PENDING ELSE heap[r].status

\* C24 witness: no load is waiting, a delayed message's delay has elapsed and
\* the dead-letter collection holds a message.
C24_Witness ==
  /\ loading = <<>>
  /\ ElapsedNow # {}
  /\ Len(deadLetterMessages) > 0


\* C21 as stated: when a waiting load resolves with a snapshot, a message
\* enqueued while the load was waiting is in no collection afterwards, and the
\* collections hold exactly the messages of the snapshot.
C21_LoadOverwrites ==
  (loading # <<>> /\ Head(loading) # <<>>) =>
    \A priority \in Priorities :
      LET before == loadStateResume(This, now)
          added == enqueue(This, now, Undefined, priority, 0)
          after == loadStateResume(added.q, now)
      IN Cardinality(DOMAIN added.q.heap) <= MaxObjs =>
           /\ added.msg \notin RefsOf(after)
           /\ RefsOf(after) = RefsOf(before)


\* ---------------------------------------------------------------------------
\* The queue whose sweep timer runs, never peeked at, dequeued from, cancelled,
\* cleared or disposed of: time advances and the timer keeps firing.
InitFair ==
  \E o \in QueueOptions :
    /\ ~o.persistenceEnabled
    /\ o.retryDelay = 0
    /\ o.autoCheckDelayed
    /\ Constructed(o)
    /\ NoChannel

NextFair ==
  \/ Enqueue
  \/ Complete
  \/ Fail
  \/ RetryDeadLetter
  \/ DelayedCheck
  \/ Tick

SpecFair == InitFair /\ [][NextFair]_vars /\ WF_vars(Tick) /\ WF_vars(DelayedCheck)

\* The message objects of the model.
Refs == 1..MaxObjs

\* r waits in the delayed collection for a time the clock of the model reaches.
WaitsDelayed(r) ==
  /\ r \in Range(delayedMessages)
  /\ heap[r].delayUntil # Undefined
  /\ heap[r].delayUntil <= MaxTime

\* r is Pending in the ready collection.
ReadyPending(r) ==
  /\ r \in Range(messages)
  /\ heap[r].status = PENDING

\* C27 as stated: with the sweep timer firing and time advancing, every
\* message waiting in the delayed collection is eventually Pending in the
\* ready collection.
C27_EventuallyReady ==
  \A r \in Refs : WaitsDelayed(r) ~> ReadyPending(r)

\* C27 amended: with the sweep timer firing and time advancing, every message
\* waiting in the delayed collection is eventually Pending in the ready
\* collection, or has been moved to the dead-letter collection by fail(id).
C27_EventuallyReadyAmended ==
  \A r \in Refs :
    WaitsDelayed(r) ~> (ReadyPending(r) \/ r \in Range(deadLetterMessages))

\* C27 witness: a message enqueued with a delay is Pending in the ready
\* collection after its time, on a queue whose sweep timer runs.
C27_Witness ==
  /\ delayedCheckTimer
  /\ \E r \in Range(messages) :
       /\ heap[r].status = PENDING
       /\ heap[r].delayUntil # Undefined
       /\ heap[r].delayUntil <= now
       /\ heap[r].createdAt < heap[r].delayUntil


\* C33 as stated: every message of the delayed collection has status Delayed
\* and a delayUntil, and every message whose status is Delayed is in the
\* delayed collection.
C33_DelayedIffInDelayed ==
  /\ \A r \in Range(delayedMessages) :
       /\ heap[r].status = DELAYED
       /\ heap[r].delayUntil # Undefined
  /\ \A r \in RefsOf(This) :
       heap[r].status = DELAYED => r \in Range(delayedMessages)

\* C34 as stated: a message is in the dead-letter collection exactly when its
\* status is DeadLetter.
C34_DeadLetterIffStatus ==
  \A r \in RefsOf(This) :
    r \in Range(deadLetterMessages) <=> heap[r].status = DEAD_LETTER


\* C35 as stated: whenever size() is 0 (isEmpty() is true), dequeue() and
\* peek() at the same clock value return nothing.
C35_EmptyMeansNothing ==
  size(This) = 0 =>
    /\ dequeue(This, now).msg = Undefined
    /\ peek(This, now).msg = Undefined

\* C35 amended: whenever size() is 0, dequeue() and peek() at the same clock
\* value return the same thing, which is nothing or a message of the delayed
\* collection whose delay has elapsed; they return nothing when no delay has
\* elapsed.
C35_EmptyMeansNothingAmended ==
  size(This) = 0 =>
    /\ dequeue(This, now).msg = peek(This, now).msg
    /\ dequeue(This, now).msg \in ElapsedNow \cup {Undefined}
    /\ ElapsedNow = {} => dequeue(This, now).msg = Undefined

\* C35 witness: size() is 0 while the ready collection holds a message that is
\* not Pending and the delayed collection holds a message that still waits.
C35_Witness ==
  /\ size(This) = 0
  /\ Len(messages) > 0
  /\ Len(delayedMessages) > 0
  /\ ElapsedNow = {}


\* C36 as stated: dequeue, peek, complete, fail, retryDeadLetter and the sweep
\* leave totalSize() as it is, and enqueue raises it by 1 when the id is new
\* and by 0 when a message has it.
C36_CountConserved ==
  /\ totalSize(dequeue(This, now).q) = totalSize(This)
  /\ totalSize(peek(This, now).q) = totalSize(This)
  /\ totalSize(checkDelayedMessages(This, now)) = totalSize(This)
  /\ \A id \in Ids :
       /\ totalSize(complete(This, now, id).q) = totalSize(This)
       /\ totalSize(fail(This, options, now, id).q) = totalSize(This)
       /\ totalSize(retryDeadLetter(This, now, id).q) = totalSize(This)
  /\ \A optId \in Ids \cup {Undefined}, priority \in Priorities, delay \in Delays :
       totalSize(enqueue(This, now, optId, priority, delay).q) =
         totalSize(This) +
           IF optId # Undefined /\ findMessageById(This, optId) # Undefined
           THEN 0 ELSE 1


\* The delayed collection of q lists its messages by delayUntil ascending.
DelayUntilAscending(q) ==
  \A i, j \in DOMAIN q.delayedMessages :
    i < j => q.heap[q.delayedMessages[i]].delayUntil
               <= q.heap[q.delayedMessages[j]].delayUntil

\* C32 as stated: after an enqueue with a delay, and after a fail that puts the
\* message in the delayed collection for a retry, the delayed collection is
\* ordered by delayUntil ascending.
C32_DelayedByDelayUntil ==
  /\ \A optId \in Ids \cup {Undefined}, priority \in Priorities, delay \in Delays :
       delay > 0 =>
         DelayUntilAscending(enqueue(This, now, optId, priority, delay).q)
  /\ \A id \in Ids :
       LET out == fail(This, options, now, id)
       IN (out.ok /\ out.msg \in Range(out.q.delayedMessages)) =>
            DelayUntilAscending(out.q)


\* C37 as stated: after cancelDelayed(id) has returned true the message is in
\* no collection and findMessageById(id) finds nothing, so that peek() and
\* dequeue() at once or after the delay return another message or none.
C37_CancelledIsGone ==
  \A id \in Ids :
    LET out == cancelDelayed(This, id)
    IN out.ok =>
         /\ out.msg \notin RefsOf(out.q)
         /\ findMessageById(out.q, id) = Undefined
         /\ \A t \in now..MaxTime :
              /\ peek(out.q, t).msg # out.msg
              /\ dequeue(out.q, t).msg # out.msg


\* The messages a step finds outside the delayed collection with a delayUntil
\* that has elapsed (as every promoted message has until a fail or a
\* retryDeadLetter changes its delayUntil) and leaves in the delayed collection.
BackInDelayed ==
  {r \in (RefsOf(This) \ Range(delayedMessages)) \cap Range(delayedMessages') :
     heap[r].delayUntil # Undefined /\ heap[r].delayUntil <= now}

\* C31: a message that a sweep has promoted out of the delayed collection is
\* put back there only by a fail(id) on it (the step that adds 1 to its
\* processingAttempts): not by enqueue, peek, dequeue, complete,
\* retryDeadLetter, a sweep or a snapshot load.
C31_PromotionMonotonic ==
  [][\A r \in BackInDelayed :
       heap'[r].processingAttempts = heap[r].processingAttempts + 1]_vars

\* C31 witness: a snapshot load has brought back and promoted a message that
\* was failed after the save: its delay has elapsed, it is Pending in the ready
\* collection (twice, once from the saved array and once from the sweep) and
\* not in the delayed collection.
C31_Witness ==
  /\ storage # <<>>
  /\ loading = <<>>
  /\ \E r \in Range(messages) \ Range(delayedMessages) :
       /\ heap[r].status = PENDING
       /\ heap[r].processingAttempts > 0
       /\ heap[r].delayUntil # Undefined
       /\ heap[r].delayUntil <= now
       /\ Len(Filter(messages, LAMBDA x : x = r)) > 1


\* C38 as stated: when a waiting load resolves with a snapshot, every message
\* the snapshot holds with status Processing is Processing afterwards, and
\* peek() and dequeue() do not return it.
C38_ProcessingSurvivesLoad ==
  (loading # <<>> /\ Head(loading) # <<>>) =>
    LET q == loadStateResume(This, now)
    IN \A r \in RefsOf(q) :
         heap[r].status = PROCESSING =>
           /\ q.heap[r].status = PROCESSING
           /\ peek(q, now).msg # r
           /\ dequeue(q, now).msg # r


\* ---------------------------------------------------------------------------
\* Several queues constructed one after another on the same localStorage.

\* What the calls on the fleet leave alone.
FleetFrame ==
  /\ UNCHANGED <<queueVars, channel, listeners, peerChannel, peerListeners,
                 driver, loaded>>
  /\ posted' = <<>>
  /\ invoked' = <<>>
  /\ logged' = FALSE

\* new AdvancedQueue({persistenceEnabled: true, persistenceDriver:
\* 'localstorage'}): the constructor generates the queueId and starts the load,
\* whose getItem reads the item under the queue's key before the constructor
\* returns.  An item is the number of the queue that saved it.
Construct ==
  /\ Len(fleet.ids) < MaxInstances
  /\ \E queueId \in QueueIds :
       fleet' = [fleet EXCEPT
                   !.ids = Append(@, queueId),
                   !.restored = Append(@, fleet.store[storageKey(queueId)])]
  /\ FleetFrame

\* saveState() of one of the queues.
FleetSave ==
  /\ \E i \in DOMAIN fleet.ids :
       fleet' = [fleet EXCEPT !.store[storageKey(fleet.ids[i])] = i]
  /\ FleetFrame

InitFleet == Init

NextFleet ==
  \/ Construct
  \/ FleetSave

SpecFleet == InitFleet /\ [][NextFleet]_vars

\* C39: what the load started by a queue's constructor read is nothing, or the
\* state saved by an earlier queue whose generated queueId is the same.
C39_OwnKey ==
  \A i \in DOMAIN fleet.ids :
    fleet.restored[i] # Undefined =>
      /\ fleet.restored[i] < i
      /\ fleet.ids[fleet.restored[i]] = fleet.ids[i]

\* C39 witness: the first queue has saved its state, a queue constructed with
\* the same queueId has read that state, and a queue constructed with another
\* queueId has read nothing.
C39_Witness ==
  /\ Len(fleet.ids) = 3
  /\ fleet.ids[2] = fleet.ids[1]
  /\ fleet.restored[2] = 1
  /\ fleet.ids[3] # fleet.ids[1]
  /\ fleet.restored[3] = Undefined


\* C40 as stated: after clear() (which is what dispose() does to the
\* collections) the three collections are empty and stay empty when a load that
\* was waiting resolves afterwards.
C40_StaysEmpty ==
  loading # <<>> =>
    LET cleared == clear(This)
        q == loadStateResume(cleared, now)
    IN /\ totalSize(cleared) = 0
       /\ totalSize(q) = 0

====
